---- MODULE Spec2Model ----
(***************************************************************************)
(* Model of joueuses_dashboard.py: a Streamlit script that loads one       *)
(* spreadsheet (load_data, cached with st.cache_data), validates its       *)
(* columns and renders six report sections.  A run of the script is a      *)
(* walk of pc through the script's blocks; st.stop() and an uncaught       *)
(* exception end the run; a widget interaction or a reload starts the      *)
(* next run in the same process.                                           *)
(*                                                                         *)
(* A spreadsheet row is [row, Joueuse, Date, Phase_Cycle]: `row` is the    *)
(* row's number in the sheet and stands for the rest of its cells (the     *)
(* eight metric columns), which no modelled branch reads.  A Joueuse cell  *)
(* is an identifier: the number itself in a sheet that numbers its         *)
(* players, the rank of the name in a sheet that names them.  Phase_Cycle  *)
(* is the rank of the phase label; an empty cell is NaN.  A figure is      *)
(* modelled by what names it.                                              *)
(***************************************************************************)
EXTENDS Integers, Sequences, FiniteSets

\* ---------------------------------------------------------------- bounds
MaxRows == 3
MaxSectionRows == 5
MaxReads == 2
MaxFigs == 9
MaxCols == 6

\* ------------------------------------------------------------ cell values
\* An empty cell as pandas reads it (NaN, and NaT once Date is a datetime).
NaN == -1
NaT == NaN

PlayerIds == {0, 1}
PhaseIds == {1, 2, 3}
PlayerCells == PlayerIds \cup {NaN}
PhaseCells == PhaseIds \cup {NaN}

\* A raw Date cell: a date, a text that is no date, or an empty cell.
DateCells == {<<"date", 1>>, <<"date", 2>>, <<"text", 0>>, <<"empty", 0>>}

Columns ==
    {"Date", "Joueuse", "Phase_Cycle", "Fer_mg", "Hydratation_L", "Sprints",
     "Distance_km", "Precision_Passes", "Humeur", "Crampes", "Fatigue"}

required_columns ==
    <<"Joueuse", "Phase_Cycle", "Fer_mg", "Hydratation_L", "Sprints",
      "Distance_km", "Precision_Passes", "Humeur", "Crampes", "Fatigue">>

variables_nutrition == <<"Fer_mg", "Hydratation_L">>
variables_performance == <<"Sprints", "Distance_km", "Precision_Passes">>
variables_symptomes == <<"Humeur", "Crampes", "Fatigue">>
variables == variables_nutrition \o variables_performance \o variables_symptomes

Range(s) == {s[i] : i \in 1..Len(s)}

Min(a, b) == IF a < b THEN a ELSE b

\* ------------------------------------------------------------- load_data
\* pd.to_datetime(cell, errors='coerce')
ToDatetime(cell) == IF cell[1] = "date" THEN cell[2] ELSE NaT

ParseDates(rows) ==
    [i \in 1..Len(rows) |-> [rows[i] EXCEPT !.Date = ToDatetime(rows[i].Date)]]

KeepRow(r) == r.Date # NaT

\* dropna whose result is not kept.
DropNaDiscarded(rows) == rows

\* df.dropna(subset=['Date'])
DropNa(rows) == SelectSeq(rows, KeepRow)

\* The order sort_values gives one key column: ascending, NaN last.
CellLess(a, b) == a # NaN /\ (b = NaN \/ a < b)

\* r sorts strictly before s under by=['Joueuse', 'Date'].
RowBefore(r, s) ==
    \/ CellLess(r.Joueuse, s.Joueuse)
    \/ r.Joueuse = s.Joueuse /\ CellLess(r.Date, s.Date)

RECURSIVE InsertRow(_, _)
InsertRow(sorted, r) ==
    IF sorted = <<>> THEN <<r>>
    ELSE IF RowBefore(r, sorted[Len(sorted)])
         THEN Append(InsertRow(SubSeq(sorted, 1, Len(sorted) - 1), r),
                     sorted[Len(sorted)])
         ELSE Append(sorted, r)

RECURSIVE SortRows(_)
SortRows(rows) ==
    IF rows = <<>> THEN <<>>
    ELSE InsertRow(SortRows(SubSeq(rows, 1, Len(rows) - 1)), rows[Len(rows)])

\* sort_values whose result is not kept.
SortValuesDiscarded(rows) == rows

\* df.sort_values(by=['Joueuse', 'Date']).reset_index(drop=True): a stable
\* sort on the two keys.
SortValues(rows) == SortRows(rows)

MissingRequired(cols) == {i \in 1..Len(required_columns) : required_columns[i] \notin cols}

FirstMissing(cols) ==
    required_columns[CHOOSE i \in MissingRequired(cols) :
                         \A k \in MissingRequired(cols) : i <= k]

\* st.stop() under an except clause that catches it: a second message.
StoppedCaught(msg) ==
    [kind |-> "stop", df |-> <<>>, errors |-> <<msg, <<"Erreur", "">>>>]

\* How a call of load_data ends: it returns a table, or st.stop() halts the
\* run after the messages given to st.error.
Returned(t) == [kind |-> "return", df |-> t, errors |-> <<>>]
Stopped(msg) == [kind |-> "stop", df |-> <<>>, errors |-> <<msg>>]

\* The body of load_data on a file: the table it returns, or the message it
\* gives st.error before st.stop().  st.stop() raises a BaseException, which
\* neither except clause catches; the KeyError of sort_values on an absent
\* Joueuse column is an Exception, which the second clause does catch.
load_data(f) ==
    IF f.status = "absent"
    THEN Stopped(<<"Le fichier Excel n'a pas ete trouve.">>)
    ELSE IF f.status = "unreadable"
    THEN Stopped(<<"Erreur", "read_excel">>)
    ELSE IF "Date" \in f.columns
    THEN LET dated == DropNa(ParseDates(f.rows))
         IN  IF "Joueuse" \notin f.columns
             THEN Stopped(<<"Erreur", "'Joueuse'">>)
             ELSE LET sorted == SortValues(dated)
                  IN  IF MissingRequired(f.columns) # {}
                      THEN Stopped(<<"La colonne est manquante",
                                     FirstMissing(f.columns)>>)
                      ELSE Returned(sorted)
    ELSE Stopped(<<"La colonne est manquante", "Date">>)

\* ------------------------------------------- display_figures_in_columns
\* One st.columns(cols_per_row) row per slice figures[i:i+cols_per_row];
\* shown[j] is the figure drawn in the row's j-th column.
RECURSIVE GridRows(_, _, _)
GridRows(figures, cols_per_row, i) ==
    IF i >= Len(figures) THEN <<>>
    ELSE <<[columns |-> cols_per_row,
            shown |-> SubSeq(figures, i + 1, Min(i + cols_per_row, Len(figures)))]>>
         \o GridRows(figures, cols_per_row, i + cols_per_row)

\* The loop over full rows only: range(0, len - len % cols_per_row, cols_per_row).
display_full_rows(figures, cols_per_row) ==
    GridRows(SubSeq(figures, 1, Len(figures) - (Len(figures) % cols_per_row)),
             cols_per_row, 0)

display_figures_in_columns(figures, cols_per_row) == GridRows(figures, cols_per_row, 0)

\* ------------------------------------------------------ pandas helpers
\* Series == value: NaN equals nothing, itself included.
CellEq(a, b) == a # NaN /\ b # NaN /\ a = b

\* Series.unique(): the values in order of first occurrence, NaN among them.
RECURSIVE Unique(_)
Unique(s) ==
    IF s = <<>> THEN <<>>
    ELSE LET u == Unique(SubSeq(s, 1, Len(s) - 1))
         IN  IF s[Len(s)] \in Range(u) THEN u ELSE Append(u, s[Len(s)])

JoueuseColumn(df) == [i \in 1..Len(df) |-> df[i].Joueuse]
PhaseColumn(df) == [i \in 1..Len(df) |-> df[i].Phase_Cycle]

\* df[df['Phase_Cycle'] == phase]
RowsOfPhase(df, phase) ==
    LET Test(r) == CellEq(r.Phase_Cycle, phase) IN SelectSeq(df, Test)

\* df[df["Joueuse"] == joueuse]
RowsOfJoueuse(df, joueuse) ==
    LET Test(r) == CellEq(r.Joueuse, joueuse) IN SelectSeq(df, Test)

\* The rows of one (Joueuse, Phase_Cycle) group.
RowsOfGroup(df, key) ==
    LET Test(r) == CellEq(r.Joueuse, key[1]) /\ CellEq(r.Phase_Cycle, key[2])
    IN  SelectSeq(df, Test)

PairLess(a, b) == a[1] < b[1] \/ (a[1] = b[1] /\ a[2] < b[2])

\* The elements of a set of pairs in ascending order.
RECURSIVE SortedPairs(_)
SortedPairs(S) ==
    IF S = {} THEN <<>>
    ELSE LET m == CHOOSE x \in S : \A y \in S : y = x \/ PairLess(x, y)
         IN  <<m>> \o SortedPairs(S \ {m})

RECURSIVE SortedInts(_)
SortedInts(S) ==
    IF S = {} THEN <<>>
    ELSE LET m == CHOOSE x \in S : \A y \in S : x <= y
         IN  <<m>> \o SortedInts(S \ {m})

\* groupby(..., sort=False): the group keys in order of first occurrence.
GroupKeysUnsorted(df) ==
    LET Known(k) == k[1] # NaN /\ k[2] # NaN
    IN  SelectSeq(Unique([i \in 1..Len(df) |-> <<df[i].Joueuse, df[i].Phase_Cycle>>]),
                  Known)

\* df.groupby(['Joueuse', 'Phase_Cycle']): the group keys in ascending
\* order; a row with NaN in a key column is in no group.
GroupKeys(df) ==
    SortedPairs({<<df[i].Joueuse, df[i].Phase_Cycle>> : i \in
                   {k \in 1..Len(df) : df[k].Joueuse # NaN /\ df[k].Phase_Cycle # NaN}})

\* unstack() without fill_value: NaN where a pair has no row.
PhasesParJoueuseUnfilled(df) ==
    LET keys == Range(GroupKeys(df))
    IN  [index |-> SortedInts({k[1] : k \in keys}),
         columns |-> SortedInts({k[2] : k \in keys}),
         count |-> [k \in {k[1] : k \in keys} \X {k[2] : k \in keys} |->
                       IF k \in keys THEN Len(RowsOfGroup(df, k)) ELSE NaN]]

\* df.groupby('Joueuse')['Phase_Cycle'].value_counts().unstack(fill_value=0)
PhasesParJoueuse(df) ==
    LET keys == Range(GroupKeys(df))
    IN  [index |-> SortedInts({k[1] : k \in keys}),
         columns |-> SortedInts({k[2] : k \in keys}),
         count |-> [k \in {k[1] : k \in keys} \X {k[2] : k \in keys} |->
                       Len(RowsOfGroup(df, k))]]

\* sorted(values) raises TypeError when it compares a name with NaN, a
\* float: whenever NaN stands among two values or more.
SortedRaises(values, type) == type = "text" /\ NaN \in Range(values) /\ Len(values) >= 2

\* sorted(values): insertion by Python's <, which is False against NaN.
PyLess(a, b) == a # NaN /\ b # NaN /\ a < b

RECURSIVE PyInsert(_, _)
PyInsert(sorted, x) ==
    IF sorted = <<>> THEN <<x>>
    ELSE IF PyLess(x, sorted[Len(sorted)])
         THEN Append(PyInsert(SubSeq(sorted, 1, Len(sorted) - 1), x),
                     sorted[Len(sorted)])
         ELSE Append(sorted, x)

RECURSIVE PySorted(_)
PySorted(s) ==
    IF s = <<>> THEN <<>>
    ELSE PyInsert(PySorted(SubSeq(s, 1, Len(s) - 1)), s[Len(s)])

\* r sorts strictly before s under sort_values("Date").
DateBefore(r, s) == CellLess(r.Date, s.Date)

RECURSIVE InsertByDate(_, _)
InsertByDate(sorted, r) ==
    IF sorted = <<>> THEN <<r>>
    ELSE IF DateBefore(r, sorted[Len(sorted)])
         THEN Append(InsertByDate(SubSeq(sorted, 1, Len(sorted) - 1), r),
                     sorted[Len(sorted)])
         ELSE Append(sorted, r)

RECURSIVE SortByDate(_)
SortByDate(rows) ==
    IF rows = <<>> THEN <<>>
    ELSE InsertByDate(SortByDate(SubSeq(rows, 1, Len(rows) - 1)), rows[Len(rows)])

\* ------------------------------------------------------ report sections
\* The loop of sections 2.2 and 4.2: one figure per phase of
\* df['Phase_Cycle'].unique() with more than one row, named by its phase.
RECURSIVE PhaseLoop(_, _)
PhaseLoop(df, phases) ==
    IF phases = <<>> THEN <<>>
    ELSE (IF Len(RowsOfPhase(df, phases[1])) > 1 THEN <<phases[1]>> ELSE <<>>)
         \o PhaseLoop(df, SubSeq(phases, 2, Len(phases)))

\* The loop of sections 2.3 and 4.3: one figure per group with more than
\* one row, named by its (joueuse, phase).
RECURSIVE GroupLoop(_, _)
GroupLoop(df, keys) ==
    IF keys = <<>> THEN <<>>
    ELSE (IF Len(RowsOfGroup(df, keys[1])) > 1 THEN <<keys[1]>> ELSE <<>>)
         \o GroupLoop(df, SubSeq(keys, 2, Len(keys)))

\* The loop of section 2.2 under the test len(df_phase) > 0.
Section22FiguresNonEmpty(df) ==
    LET Test(p) == Len(RowsOfPhase(df, p)) > 0
    IN  SelectSeq(Unique(PhaseColumn(df)), Test)

Section22Figures(df) == PhaseLoop(df, Unique(PhaseColumn(df)))
Section23Figures(df) == GroupLoop(df, GroupKeys(df))
Section42Figures(df) == PhaseLoop(df, Unique(PhaseColumn(df)))
Section43Figures(df) == GroupLoop(df, GroupKeys(df))

\* st.selectbox(label, options) at the stored index: None (<<>>) when there
\* is no option.
Selectbox(options, index) ==
    IF options = <<>> THEN <<>>
    ELSE IF index < Len(options) THEN <<options[index + 1]>> ELSE <<options[1]>>

\* Python truth of a selectbox value: None and the number 0 are false; NaN
\* and a name are true.
Truthy(selected, type) == selected # <<>> /\ (type = "text" \/ selected[1] # 0)

\* Section 3 below its two select boxes: the plots it draws.
Section3Plots(df, type, selected_joueuse, selected_variable) ==
    IF Truthy(selected_joueuse, type) /\ selected_variable # <<>>
    THEN <<[kind |-> "lineplot",
            title |-> <<selected_variable[1], selected_joueuse[1]>>,
            points |-> SortByDate(RowsOfJoueuse(df, selected_joueuse[1]))]>>
    ELSE <<>>

\* ------------------------------------------------------------ the sheets
\* A spreadsheet on disk: absent, unreadable, or a sheet with its columns
\* and rows.
Sheet(cols, type, rows) ==
    [status |-> "ok", columns |-> cols, joueuse_type |-> type, rows |-> rows]
AbsentFile ==
    [status |-> "absent", columns |-> {}, joueuse_type |-> "number", rows |-> <<>>]
UnreadableFile ==
    [status |-> "unreadable", columns |-> {}, joueuse_type |-> "number", rows |-> <<>>]

\* How a sheet writes its Joueuse cells.
JoueuseTypes == {"number", "text"}

\* The rows of a sheet whose i-th row has the Joueuse and Date cells c[i].
ShuffledRows(c) ==
    [i \in 1..Len(c) |-> [row |-> i, Joueuse |-> c[i][1], Date |-> c[i][2],
                          Phase_Cycle |-> 1 + (i % 2)]]

\* The files load_data is checked on: sheets of up to n rows in any order
\* with every column, and sheets of at most one row that lack any columns.
IsLoadFile(f, n) ==
    \/ f \in {AbsentFile, UnreadableFile}
    \/ \E k \in 0..n : \E c \in [1..k -> PlayerCells \X DateCells] :
          f = Sheet(Columns, "number", ShuffledRows(c))
    \/ \E m \in (SUBSET Columns) \ {{}} :
          \E k \in 0..1 : \E c \in [1..k -> PlayerCells \X DateCells] :
             f = Sheet(Columns \ m, "number", ShuffledRows(c))

\* The (Joueuse, Phase_Cycle) cell pairs in ascending order.
CellPairs == SortedPairs(PlayerCells \X PhaseCells)

\* The sequences of n indexes of CellPairs, none above top, in descending order.
RECURSIVE Descending(_, _)
Descending(n, top) ==
    IF n = 0 THEN {<<>>}
    ELSE UNION {{<<c>> \o t : t \in Descending(n - 1, c)} : c \in 1..top}

\* The sheets of up to n rows listed by descending (Joueuse, Phase_Cycle),
\* with any cell in both columns and alternating dates.
GroupedRows(n) ==
    UNION {{[i \in 1..k |-> [row |-> i, Joueuse |-> CellPairs[c[i]][1],
                             Date |-> <<"date", 1 + (i % 2)>>,
                             Phase_Cycle |-> CellPairs[c[i]][2]]] :
             c \in Descending(k, Len(CellPairs))} : k \in 0..n}

SampleRows ==
    <<[row |-> 1, Joueuse |-> 1, Date |-> <<"date", 2>>, Phase_Cycle |-> 1],
      [row |-> 2, Joueuse |-> 0, Date |-> <<"text", 0>>, Phase_Cycle |-> 2]>>

\* The files the whole script is run on: the grouped sheets of up to n
\* rows, the shuffled sheets of fewer rows, and files load_data refuses.
IsScriptFile(f, n) ==
    \/ f \in {AbsentFile, UnreadableFile}
    \/ f \in {Sheet(Columns, t, r) : t \in JoueuseTypes, r \in GroupedRows(n)}
    \/ \E k \in 0..(n - 1) : \E c \in [1..k -> PlayerCells \X DateCells] :
          f = Sheet(Columns, "number", ShuffledRows(c))
    \/ f \in {Sheet(Columns \ m, "text", SampleRows) :
                m \in {{"Date"}, {"Joueuse"}, {"Fatigue"}, {"Date", "Joueuse"},
                       {"Phase_Cycle", "Sprints"}}}

SectionFiles(n) == {Sheet(Columns, t, r) : t \in JoueuseTypes, r \in GroupedRows(n)}

\* ----------------------------------------------------------------- state
VARIABLES
    file,                \* the spreadsheet on disk
    cache,               \* st.cache_data's entry for load_data
    reads,               \* how many times pd.read_excel has run
    pc,                  \* the block of the script the run is at
    page,                \* the elements the run has rendered, in order
    df,                  \* the script's df
    raw_checked,         \* the sidebar checkbox
    joueuse_index,       \* the 'Joueuse' select box (0-based)
    variable_index,      \* the 'Variable' select box (0-based)
    phases_par_joueuse,  \* section 1's table
    phase_figures,       \* section 2.2's figures
    fig_list,            \* section 2.3's figures
    joueuses,            \* section 3's options
    plots,               \* section 3's plots
    figs42,              \* section 4.2's figs
    figs43,              \* section 4.3's figs
    g_pc, g_figures, g_cols, g_rows   \* a call of display_figures_in_columns

script_vars ==
    <<file, cache, reads, pc, page, df, raw_checked, joueuse_index, variable_index,
      phases_par_joueuse, phase_figures, fig_list, joueuses, plots, figs42, figs43>>
grid_vars == <<g_pc, g_figures, g_cols, g_rows>>
vars == <<script_vars, grid_vars>>

NoTable == [index |-> <<>>, columns |-> <<>>, count |-> <<>>]

\* Lines 17-21: what every run renders before it calls load_data.
StartPage == <<<<"title">>, <<"markdown">>>>

RunStart ==
    /\ pc' = "load"
    /\ page' = StartPage
    /\ df' = <<>>
    /\ phases_par_joueuse' = NoTable
    /\ phase_figures' = <<>>
    /\ fig_list' = <<>>
    /\ joueuses' = <<>>
    /\ plots' = <<>>
    /\ figs42' = <<>>
    /\ figs43' = <<>>

InitScript ==
    /\ cache = [hit |-> FALSE, value |-> <<>>]
    /\ reads = 0
    /\ pc = "load"
    /\ page = StartPage
    /\ df = <<>>
    /\ raw_checked = FALSE
    /\ joueuse_index = 0
    /\ variable_index = 0
    /\ phases_par_joueuse = NoTable
    /\ phase_figures = <<>>
    /\ fig_list = <<>>
    /\ joueuses = <<>>
    /\ plots = <<>>
    /\ figs42 = <<>>
    /\ figs43 = <<>>

GridIdle == g_pc = "idle" /\ g_figures = <<>> /\ g_cols = 1 /\ g_rows = <<>>

Init == IsScriptFile(file, MaxRows) /\ InitScript /\ GridIdle

InitLoad == IsLoadFile(file, MaxRows) /\ InitScript /\ GridIdle

InitSections == file \in SectionFiles(MaxSectionRows) /\ InitScript /\ GridIdle

InitGrid ==
    /\ file = AbsentFile
    /\ InitScript
    /\ g_pc = "call"
    /\ g_figures \in {[k \in 1..n |-> k] : n \in 0..MaxFigs}
    /\ g_cols \in 1..MaxCols
    /\ g_rows = <<>>

\* --------------------------------------------------------------- actions
\* A cache that never answers.
CacheMiss(c) == FALSE

\* st.cache_data has an entry for load_data().
CacheHit(c) == c.hit

\* Line 49, df = load_data(): st.cache_data answers from its entry when it
\* has one; otherwise the body runs, and only a returned table is stored.
CallLoadData ==
    /\ pc = "load"
    /\ IF CacheHit(cache)
       THEN /\ df' = cache.value
            /\ pc' = "sidebar"
            /\ UNCHANGED <<cache, reads, page>>
       ELSE LET r == load_data(file)
            IN  /\ reads' = reads + 1
                /\ IF r.kind = "return"
                   THEN /\ cache' = [hit |-> TRUE, value |-> r.df]
                        /\ df' = r.df
                        /\ pc' = "sidebar"
                        /\ page' = page
                   ELSE /\ cache' = cache
                        /\ df' = df
                        /\ pc' = "stopped"
                        /\ page' = page \o [i \in 1..Len(r.errors) |->
                                              <<"error", r.errors[i]>>]
    /\ UNCHANGED <<file, raw_checked, joueuse_index, variable_index,
                   phases_par_joueuse, phase_figures, fig_list, joueuses, plots,
                   figs42, figs43, grid_vars>>

\* Lines 51-54.
Sidebar ==
    /\ pc = "sidebar"
    /\ page' = page \o <<<<"sidebar.header">>, <<"sidebar.checkbox", raw_checked>>>>
                    \o (IF raw_checked
                        THEN <<<<"subheader", "raw">>, <<"dataframe", df>>>>
                        ELSE <<>>)
    /\ pc' = "s1"
    /\ UNCHANGED <<file, cache, reads, df, raw_checked, joueuse_index, variable_index,
                   phases_par_joueuse, phase_figures, fig_list, joueuses, plots,
                   figs42, figs43, grid_vars>>

\* Lines 61-72.  DataFrame.plot raises TypeError("no numeric data to plot")
\* on a table without columns; the uncaught exception ends the run.
Section1 ==
    /\ pc = "s1"
    /\ phases_par_joueuse' = PhasesParJoueuse(df)
    /\ IF phases_par_joueuse'.columns = <<>>
       THEN /\ page' = page \o <<<<"header", "1">>, <<"exception", "1">>>>
            /\ pc' = "crashed"
       ELSE /\ page' = page \o <<<<"header", "1">>, <<"pyplot", "fig1">>>>
            /\ pc' = "s21"
    /\ UNCHANGED <<file, cache, reads, df, raw_checked, joueuse_index, variable_index,
                   phase_figures, fig_list, joueuses, plots, figs42, figs43, grid_vars>>

\* Lines 75-83.
Section21 ==
    /\ pc = "s21"
    /\ page' = page \o <<<<"header", "2">>, <<"subheader", "2.1">>, <<"pyplot", "fig2">>>>
    /\ pc' = "s22"
    /\ UNCHANGED <<file, cache, reads, df, raw_checked, joueuse_index, variable_index,
                   phases_par_joueuse, phase_figures, fig_list, joueuses, plots,
                   figs42, figs43, grid_vars>>

\* Lines 86-97.
Section22 ==
    /\ pc = "s22"
    /\ phase_figures' = Section22Figures(df)
    /\ page' = page \o <<<<"subheader", "2.2">>,
                         <<"grid", display_figures_in_columns(phase_figures', 2)>>>>
    /\ pc' = "s23"
    /\ UNCHANGED <<file, cache, reads, df, raw_checked, joueuse_index, variable_index,
                   phases_par_joueuse, fig_list, joueuses, plots, figs42, figs43,
                   grid_vars>>

\* Lines 100-111.
Section23 ==
    /\ pc = "s23"
    /\ fig_list' = Section23Figures(df)
    /\ page' = page \o <<<<"subheader", "2.3">>,
                         <<"grid", display_figures_in_columns(fig_list', 3)>>>>
    /\ pc' = "s3"
    /\ UNCHANGED <<file, cache, reads, df, raw_checked, joueuse_index, variable_index,
                   phases_par_joueuse, phase_figures, joueuses, plots, figs42, figs43,
                   grid_vars>>

\* Lines 114-129.
Section3 ==
    /\ pc = "s3"
    /\ IF SortedRaises(Unique(JoueuseColumn(df)), file.joueuse_type)
       THEN /\ joueuses' = <<>>
            /\ plots' = <<>>
            /\ page' = page \o <<<<"header", "3">>, <<"exception", "3">>>>
            /\ pc' = "crashed"
       ELSE /\ joueuses' = PySorted(Unique(JoueuseColumn(df)))
            /\ plots' = Section3Plots(df, file.joueuse_type,
                                      Selectbox(joueuses', joueuse_index),
                                      Selectbox(variables, variable_index))
            /\ page' = page \o <<<<"header", "3">>, <<"selectbox", "Joueuse">>,
                                 <<"selectbox", "Variable">>>>
                            \o [i \in 1..Len(plots') |-> <<"pyplot", plots'[i].title>>]
            /\ pc' = "s41"
    /\ UNCHANGED <<file, cache, reads, df, raw_checked, joueuse_index, variable_index,
                   phases_par_joueuse, phase_figures, fig_list, figs42, figs43,
                   grid_vars>>

\* Lines 132-140.
Section41 ==
    /\ pc = "s41"
    /\ page' = page \o <<<<"header", "4">>, <<"subheader", "4.1">>, <<"pyplot", "fig41">>>>
    /\ pc' = "s42"
    /\ UNCHANGED <<file, cache, reads, df, raw_checked, joueuse_index, variable_index,
                   phases_par_joueuse, phase_figures, fig_list, joueuses, plots,
                   figs42, figs43, grid_vars>>

\* Lines 143-154.
Section42 ==
    /\ pc = "s42"
    /\ figs42' = Section42Figures(df)
    /\ page' = page \o <<<<"subheader", "4.2">>,
                         <<"grid", display_figures_in_columns(figs42', 2)>>>>
    /\ pc' = "s43"
    /\ UNCHANGED <<file, cache, reads, df, raw_checked, joueuse_index, variable_index,
                   phases_par_joueuse, phase_figures, fig_list, joueuses, plots,
                   figs43, grid_vars>>

\* Lines 157-169.
Section43 ==
    /\ pc = "s43"
    /\ figs43' = Section43Figures(df)
    /\ page' = page \o <<<<"subheader", "4.3">>,
                         <<"grid", display_figures_in_columns(figs43', 3)>>,
                         <<"markdown">>>>
    /\ pc' = "end"
    /\ UNCHANGED <<file, cache, reads, df, raw_checked, joueuse_index, variable_index,
                   phases_par_joueuse, phase_figures, fig_list, joueuses, plots,
                   figs42, grid_vars>>

RunOver == pc \in {"end", "stopped", "crashed"}

\* The page is reloaded or rerun from the menu: the script runs again.  The
\* runs of a process that never got a table are cut at MaxReads reads.
Rerun ==
    /\ RunOver
    /\ CacheHit(cache) \/ reads < MaxReads
    /\ RunStart
    /\ UNCHANGED <<file, cache, reads, raw_checked, joueuse_index, variable_index,
                   grid_vars>>

\* The user flips the sidebar checkbox, which the last run rendered.
ToggleRaw ==
    /\ pc \in {"end", "crashed"}
    /\ raw_checked' = ~raw_checked
    /\ RunStart
    /\ UNCHANGED <<file, cache, reads, joueuse_index, variable_index, grid_vars>>

\* The user picks another option of the 'Joueuse' select box.
SelectJoueuse ==
    /\ pc = "end"
    /\ \E k \in 0..(Len(joueuses) - 1) :
          /\ k # joueuse_index
          /\ joueuse_index' = k
    /\ RunStart
    /\ UNCHANGED <<file, cache, reads, raw_checked, variable_index, grid_vars>>

\* The user picks another option of the 'Variable' select box.
SelectVariable ==
    /\ pc = "end"
    /\ \E k \in 0..(Len(variables) - 1) :
          /\ k # variable_index
          /\ variable_index' = k
    /\ RunStart
    /\ UNCHANGED <<file, cache, reads, raw_checked, joueuse_index, grid_vars>>

\* One call display_figures_in_columns(g_figures, g_cols).
DisplayCall ==
    /\ g_pc = "call"
    /\ g_rows' = display_figures_in_columns(g_figures, g_cols)
    /\ g_pc' = "done"
    /\ UNCHANGED <<script_vars, g_figures, g_cols>>

Next ==
    \/ CallLoadData
    \/ Sidebar
    \/ Section1
    \/ Section21
    \/ Section22
    \/ Section23
    \/ Section3
    \/ Section41
    \/ Section42
    \/ Section43
    \/ Rerun
    \/ ToggleRaw
    \/ SelectJoueuse
    \/ SelectVariable

Spec == Init /\ [][Next]_vars

NextLoad == CallLoadData

SpecLoad == InitLoad /\ [][NextLoad]_vars

NextSections ==
    \/ CallLoadData
    \/ Sidebar
    \/ Section1
    \/ Section21
    \/ Section22
    \/ Section23
    \/ Section3
    \/ Section41
    \/ Section42
    \/ Section43
    \/ Rerun

SpecSections == InitSections /\ [][NextSections]_vars

NextGrid == DisplayCall

SpecGrid == InitGrid /\ [][NextGrid]_vars

\* ---------------------------------------------------------------- claims
\* The file is a sheet with every column the script reads.
FileLoads == file.status = "ok" /\ Columns \subseteq file.columns

Parseable(cell) == cell[1] = "date"

RunPast(blocks) == pc \notin (blocks \cup {"load", "stopped"})

\* C1: the table load_data returns holds exactly the rows of the sheet whose
\* Date parses: each such row once, with its own cells and its date, and no
\* other row.
C1_ExactlyParseableRows ==
    pc = "sidebar" =>
       /\ \A i \in 1..Len(file.rows) :
             Cardinality({k \in 1..Len(df) : df[k].row = i})
                = (IF Parseable(file.rows[i].Date) THEN 1 ELSE 0)
       /\ \A k \in 1..Len(df) :
             /\ df[k].row \in 1..Len(file.rows)
             /\ df[k].Joueuse = file.rows[df[k].row].Joueuse
             /\ df[k].Phase_Cycle = file.rows[df[k].row].Phase_Cycle
             /\ df[k].Date = file.rows[df[k].row].Date[2]

C1_Witness ==
    /\ pc = "sidebar"
    /\ Len(file.rows) = 3
    /\ Len(df) = 2
    /\ df[1].row = 3
    /\ file.rows[2].Date = <<"text", 0>>

\* Joueuse a sorts before Joueuse b: ascending, the empty cell last.
JoueuseBefore(a, b) == a # b /\ (b = NaN \/ (a # NaN /\ a < b))

InOrder(t) ==
    \A r \in 1..(Len(t) - 1) :
       \/ JoueuseBefore(t[r].Joueuse, t[r + 1].Joueuse)
       \/ t[r].Joueuse = t[r + 1].Joueuse /\ t[r].Date <= t[r + 1].Date

ExpectedMissing ==
    IF "Date" \notin file.columns THEN "Date" ELSE FirstMissing(file.columns)

\* C3: on a sheet that lacks a required column, load_data reports "La colonne
\* '<col>' est manquante." for Date or else the first missing column, and
\* halts.
C3_MissingColumnNamed ==
    (pc # "load" /\ file.status = "ok" /\ ~(Columns \subseteq file.columns)) =>
       /\ pc = "stopped"
       /\ page = StartPage \o
                   <<<<"error", <<"La colonne est manquante", ExpectedMissing>>>>>>

SectionKinds ==
    {"sidebar.header", "sidebar.checkbox", "subheader", "dataframe", "header",
     "pyplot", "grid", "selectbox", "exception"}

Errors(p) == {i \in 1..Len(p) : p[i][1] = "error"}

\* C4: nothing of the report is rendered unless the file loaded with every
\* column; a run whose load fails renders one error and halts there.
C4_LoadValidateRender ==
    /\ (\E i \in 1..Len(page) : page[i][1] \in SectionKinds) =>
          FileLoads /\ cache.hit /\ pc \notin {"load", "stopped"}
    /\ (pc # "load" /\ ~FileLoads) =>
          /\ pc = "stopped"
          /\ Len(page) = Len(StartPage) + 1
          /\ Errors(page) = {Len(page)}
    /\ pc = "stopped" => ~FileLoads
    /\ FileLoads => Errors(page) = {}

C4_Witness ==
    /\ pc = "stopped"
    /\ reads = 2
    /\ file.status = "ok"
    /\ "Joueuse" \notin file.columns
    /\ "Date" \in file.columns

\* C5 as stated: the file is read at most once in a process, an error halt
\* included.
C5_SingleRead == reads <= 1

\* C5 amended: once load_data has returned a table the file is not read
\* again, the stored table does not change, and every run renders from it.
C5_SingleSuccessfulLoad ==
    [][/\ cache.hit => (reads' = reads /\ cache' = cache)
       /\ pc' \notin {"load", "stopped"} => (cache'.hit /\ df' = cache'.value)]_vars

C5_Witness ==
    /\ pc = "end"
    /\ cache.hit
    /\ reads = 1
    /\ raw_checked
    /\ joueuse_index = 1
    /\ Len(df) = 3

\* C6: figure k (0-based) of n is drawn in row k div c, column k mod c; there
\* are ceil(n / c) rows of c columns, none empty, and each figure is drawn
\* once.
C6_Grid ==
    g_pc = "done" =>
       LET n == Len(g_figures)
           c == g_cols
       IN  /\ Len(g_rows) = (n + c - 1) \div c
           /\ \A r \in 1..Len(g_rows) :
                 /\ g_rows[r].columns = c
                 /\ Len(g_rows[r].shown) \in 1..c
           /\ \A k \in 0..(n - 1) :
                 /\ (k \div c) + 1 \in 1..Len(g_rows)
                 /\ (k % c) + 1 \in 1..Len(g_rows[(k \div c) + 1].shown)
                 /\ g_rows[(k \div c) + 1].shown[(k % c) + 1] = g_figures[k + 1]
           /\ \A k \in 1..n :
                 Cardinality({rj \in (1..Len(g_rows)) \X (1..c) :
                                /\ rj[2] <= Len(g_rows[rj[1]].shown)
                                /\ g_rows[rj[1]].shown[rj[2]] = g_figures[k]}) = 1
           /\ n = 0 => g_rows = <<>>

C6_Witness ==
    /\ g_pc = "done"
    /\ Len(g_figures) = 7
    /\ g_cols = 3
    /\ Len(g_rows) = 3
    /\ g_rows[3].shown = <<7>>

PhaseRows(p) == {i \in 1..Len(df) : df[i].Phase_Cycle = p}

FirstRow(p) == CHOOSE i \in PhaseRows(p) : \A k \in PhaseRows(p) : i <= k

\* One figure for each phase with at least two rows, in the order the phases
\* first occur in df.
PhaseFiguresRight(figs) ==
    /\ Range(figs) = {p \in PhaseIds : Cardinality(PhaseRows(p)) >= 2}
    /\ \A a, b \in 1..Len(figs) : a < b => FirstRow(figs[a]) < FirstRow(figs[b])

\* C7: sections 2.2 and 4.2 each draw one heatmap per phase with at least two
\* rows and none for a phase with one row, in order of first occurrence, and
\* the same ones.
C7_PhaseHeatmaps ==
    /\ RunPast({"sidebar", "s1", "crashed", "s21", "s22"}) =>
          PhaseFiguresRight(phase_figures)
    /\ RunPast({"sidebar", "s1", "crashed", "s21", "s22", "s23", "s3", "s41", "s42"}) =>
          PhaseFiguresRight(figs42) /\ figs42 = phase_figures

C7_Witness ==
    /\ pc = "end"
    /\ phase_figures = <<3, 1>>
    /\ figs42 = <<3, 1>>
    /\ Cardinality(PhaseRows(2)) = 1

GroupRows(j, p) == {i \in 1..Len(df) : df[i].Joueuse = j /\ df[i].Phase_Cycle = p}

\* One figure for each (Joueuse, Phase_Cycle) with at least two rows, in
\* ascending order.
GroupFiguresRight(figs) ==
    /\ Range(figs) = {k \in PlayerIds \X PhaseIds : Cardinality(GroupRows(k[1], k[2])) >= 2}
    /\ \A a, b \in 1..Len(figs) :
          a < b => \/ figs[a][1] < figs[b][1]
                   \/ figs[a][1] = figs[b][1] /\ figs[a][2] < figs[b][2]
    /\ Len(figs) <= Len(df) \div 2

\* C8: sections 2.3 and 4.3 each draw one heatmap per (Joueuse, Phase_Cycle)
\* with at least two rows, in ascending order, at most one per two rows, and
\* under the same titles.
C8_GroupHeatmaps ==
    /\ RunPast({"sidebar", "s1", "crashed", "s21", "s22", "s23"}) =>
          GroupFiguresRight(fig_list)
    /\ pc = "end" => GroupFiguresRight(figs43) /\ figs43 = fig_list

C8_Witness ==
    /\ pc = "end"
    /\ fig_list = <<<<0, 3>>, <<1, 1>>>>
    /\ figs43 = fig_list
    /\ Len(df) = 5
    /\ df[3].Phase_Cycle = 2

RECURSIVE SumOver(_, _, _)
SumOver(t, j, cols) ==
    IF cols = <<>> THEN 0
    ELSE t.count[<<j, cols[1]>>] + SumOver(t, j, SubSeq(cols, 2, Len(cols)))

RECURSIVE GrandTotal(_, _)
GrandTotal(t, idx) ==
    IF idx = <<>> THEN 0
    ELSE SumOver(t, idx[1], t.columns) + GrandTotal(t, SubSeq(idx, 2, Len(idx)))

Ascending(s) == \A a, b \in 1..Len(s) : a < b => s[a] < s[b]

\* Section 1's table has a bar per Joueuse and a segment per phase, each
\* segment the number of rows of its pair, and the totals add up to the rows.
BarsRight(t) ==
    /\ Range(t.index) = {df[i].Joueuse : i \in 1..Len(df)} \ {NaN}
    /\ Range(t.columns) = {df[i].Phase_Cycle : i \in 1..Len(df)}
    /\ Ascending(t.index) /\ Ascending(t.columns)
    /\ \A j \in Range(t.index) :
          /\ \A p \in Range(t.columns) :
                t.count[<<j, p>>] = Cardinality(GroupRows(j, p))
          /\ SumOver(t, j, t.columns) =
                Cardinality({i \in 1..Len(df) : df[i].Joueuse = j})
    /\ GrandTotal(t, t.index) = Len(df)

\* C9 as stated: when every row has a Phase_Cycle, section 1's bars count
\* every row of the table.
C9_BarsCountRows ==
    (/\ RunPast({"sidebar", "s1", "crashed"})
     /\ \A i \in 1..Len(df) : df[i].Phase_Cycle # NaN) =>
       BarsRight(phases_par_joueuse)

\* C9 amended: when every row has a Phase_Cycle and a Joueuse, section 1's
\* bars count every row of the table.
C9_BarsCountIdentifiedRows ==
    (/\ RunPast({"sidebar", "s1", "crashed"})
     /\ \A i \in 1..Len(df) : df[i].Phase_Cycle # NaN /\ df[i].Joueuse # NaN) =>
       BarsRight(phases_par_joueuse)

C9_Witness ==
    /\ pc = "end"
    /\ \A i \in 1..Len(df) : df[i].Phase_Cycle # NaN /\ df[i].Joueuse # NaN
    /\ Len(df) = 4
    /\ phases_par_joueuse.index = <<0, 1>>
    /\ phases_par_joueuse.columns = <<1, 3>>
    /\ phases_par_joueuse.count[<<0, 3>>] = 0
    /\ phases_par_joueuse.count[<<1, 3>>] = 2

JoueuseRows(j) == {i \in 1..Len(df) : df[i].Joueuse = j}

\* C10: the select box offers the Joueuse values of the table once each in
\* ascending order, and the selected one gets one plot of exactly its rows
\* in Date order, whatever its value.
C10_EveryPlayerPlotted ==
    RunPast({"sidebar", "s1", "crashed", "s21", "s22", "s23", "s3"}) =>
       LET options == SelectSeq(joueuses, LAMBDA j : j # NaN)
           selected == Selectbox(joueuses, joueuse_index)[1]
       IN  /\ Range(options) = {df[i].Joueuse : i \in 1..Len(df)} \ {NaN}
           /\ Ascending(options)
           /\ selected # NaN =>
                 /\ Len(plots) = 1
                 /\ {plots[1].points[i].row : i \in 1..Len(plots[1].points)}
                       = {df[i].row : i \in JoueuseRows(selected)}
                 /\ Len(plots[1].points) = Cardinality(JoueuseRows(selected))
                 /\ \A i \in 1..(Len(plots[1].points) - 1) :
                       plots[1].points[i].Date <= plots[1].points[i + 1].Date

====
